---- MODULE Spec2Model ----
(***************************************************************************)
(* Model of masto_rss (src/src/main.rs): an HTTP gateway that turns a      *)
(* Mastodon or Bluesky home timeline into an RSS 2.0 feed.                 *)
(*                                                                         *)
(* Four specifications share the variables below:                          *)
(*   SpecValidate  validate_mastodon_instance on bounded hostnames         *)
(*   SpecFeed      the GET /{mastodon_instance}/{access_token} handler     *)
(*   SpecRender    content_for and bluesky_content_from_record             *)
(*   SpecAssemble  create_feed and create_bluesky_feed                     *)
(***************************************************************************)
EXTENDS Integers, Sequences, FiniteSets, TLC

VARIABLES
    instance,       \* the {mastodon_instance} path segment
    validated,      \* result of validate_mastodon_instance, or Pending
    access_token,   \* the {access_token} path segment
    pc,             \* position of the feed handler
    sent,           \* the upstream requests the handler has sent
    reply,          \* the upstream's answer the handler resumed with
    rss_lib,        \* what the rss crate does in this run (see LibOutcomes)
    response,       \* the HTTP response of the handler, or Pending
    stderr,         \* lines the handler wrote with eprintln!
    status,         \* Some(the MastodonStatus given to content_for)
    bsky,           \* Some(the record, embed and reason given to the Bluesky renderer)
    description,    \* Some(the rendered item description) once rendered
    posts,          \* Some(the post list given to a feed assembler, and which one)
    feed_output     \* the result of the feed assembler, or Pending

vars == <<instance, validated, access_token, pc, sent, reply, rss_lib, response,
          stderr, status, bsky, description, posts, feed_output>>

-----------------------------------------------------------------------------
(* Generic values *)

\* Result<T, E>
Ok(v) == [ok |-> TRUE, val |-> <<v>>, err |-> <<>>]
Err(e) == [ok |-> FALSE, val |-> <<>>, err |-> <<e>>]
Val(r) == r.val[1]
ErrOf(r) == r.err[1]
Pending == Err([kind |-> "pending", message |-> <<>>])

None == <<>>
Some(x) == <<x>>
IsSome(o) == o # <<>>
Unwrap(o) == o[1]

RECURSIVE SeqsUpTo(_, _)
SeqsUpTo(S, n) ==
    IF n = 0 THEN {<<>>}
    ELSE LET shorter == SeqsUpTo(S, n - 1)
         IN  shorter \cup {Append(s, x) : s \in {t \in shorter : Len(t) = n - 1}, x \in S}

-----------------------------------------------------------------------------
(* UserError, its Display text and its ResponseError implementation *)

UserError(kind) == [kind |-> kind, message |-> <<>>]
MastodonApiError(message) == [kind |-> "MastodonApiError", message |-> message]
InternalError(kind) == [kind |-> kind, message |-> <<>>]

-----------------------------------------------------------------------------
(* Hostnames.  A hostname is a sequence of runs [c, n]: character c repeated *)
(* n >= 1 times, so that the limits 253 and 63 keep their values.            *)

MaxHostRuns == 3
MaxLabels == 4
MaxFeedHostRuns == 2

HostChars == {"a", "-", ".", "/", ":", "@", "_", "U+00E9"}
RunLens == {1, 63, 64}
LabelLens == {61, 62, 63}

Run(c, n) == [c |-> c, n |-> n]
Lit(text) == <<Run(text, 1)>>

\* str::len counts UTF-8 bytes; chars() counts code points.  A run whose
\* character is a literal of the program stands for that literal's text.
ByteLen(c) ==
    CASE c = "U+00E9" -> 2
      [] c = "https://" -> 8
      [] c = "api/v1/timelines/home" -> 21
      [] c = "An internal error occurred. Please try again later." -> 51
      [] c = "Invalid Mastodon instance format." -> 33
      [] c = "Access token is required." -> 25
      [] c = "Bluesky credentials are required." -> 33
      [] c = "Mastodon API error: " -> 20
      [] c = "Unexpected response from Mastodon API." -> 38
      [] c = "HTTP " -> 5
      [] c = " from Mastodon API." -> 19
      [] c \in {"200", "401", "503"} -> 3
      [] c = "invalid_token" -> 13
      [] OTHER -> 1

RECURSIVE StrLen(_)
StrLen(s) ==
    IF s = <<>> THEN 0
    ELSE ByteLen(Head(s).c) * Head(s).n + StrLen(Tail(s))

StrContains(s, c) == \E i \in 1..Len(s) : s[i].c = c

is_ascii_alphanumeric(c) == c \in {"a"}

\* str::split(sep): the pieces between separators, empty pieces included.
RECURSIVE SplitFrom(_, _, _, _)
SplitFrom(s, sep, cur, acc) ==
    IF s = <<>> THEN Append(acc, cur)
    ELSE IF Head(s).c = sep
         THEN SplitFrom(Tail(s), sep, <<>>,
                        Append(acc, cur) \o [i \in 1..(Head(s).n - 1) |-> <<>>])
         ELSE SplitFrom(Tail(s), sep, Append(cur, Head(s)), acc)

Split(s, sep) == SplitFrom(s, sep, <<>>, <<>>)

MaxInstanceLen == 253
MaxLabelLen == 63

LabelTooLongOffByOne(label) == label = <<>> \/ StrLen(label) > MaxLabelLen + 1
LabelEmptyOrTooLong(label) == label = <<>> \/ StrLen(label) > MaxLabelLen

LabelHyphenEdge(label) ==
    label[1].c = "-" \/ label[Len(label)].c = "-"

LabelAllAllowed(label) ==
    \A i \in 1..Len(label) : is_ascii_alphanumeric(label[i].c) \/ label[i].c = "-"

\* The body of the for loop: TRUE when the label passes every check.
LabelPasses(label) ==
    IF LabelEmptyOrTooLong(label) THEN FALSE
    ELSE IF LabelHyphenEdge(label) THEN FALSE
    ELSE LabelAllAllowed(label)

RECURSIVE LabelsPass(_)
LabelsPass(labels) ==
    IF labels = <<>> THEN TRUE
    ELSE IF ~LabelPasses(Head(labels)) THEN FALSE
    ELSE LabelsPass(Tail(labels))

FormatBaseUrl(host) == Lit("https://") \o host \o Lit("/")

validate_mastodon_instance(host) ==
    IF \/ host = <<>>
       \/ StrLen(host) > MaxInstanceLen
       \/ StrContains(host, "/")
       \/ StrContains(host, ":")
       \/ StrContains(host, "@")
    THEN Err(UserError("InvalidInstance"))
    ELSE LET labels == Split(host, ".")
             has_label == Len(labels) > 0
         IN  IF ~LabelsPass(labels) THEN Err(UserError("InvalidInstance"))
             ELSE IF ~has_label THEN Err(UserError("InvalidInstance"))
             ELSE Ok(FormatBaseUrl(host))

\* Inputs: every string of at most MaxHostRuns runs, and every dotted name of
\* at most MaxLabels labels of LabelLens letters each.
RunStrings(k) == SeqsUpTo({Run(c, n) : c \in HostChars, n \in RunLens}, k)

RECURSIVE Dotted(_)
Dotted(lens) ==
    IF Len(lens) = 1 THEN <<Run("a", lens[1])>>
    ELSE <<Run("a", Head(lens)), Run(".", 1)>> \o Dotted(Tail(lens))

DottedNames == {Dotted(l) : l \in SeqsUpTo(LabelLens, MaxLabels) \ {<<>>}}

\* The hostnames of a given number of runs at most, and the dotted names.
Hostnames(k) == RunStrings(k) \cup DottedNames

-----------------------------------------------------------------------------
(* serde_json::Value.  A string is a sequence of runs, as for hostnames; a  *)
(* response body that is not JSON at all is the value JText.                *)

JNull == [null |-> 0]
JNum == [num |-> 0]
JStr(s) == [str |-> s]
JArr(a) == [arr |-> a]
JObj(f) == [obj |-> f]
JText(s) == [text |-> s]

IsNull(j) == DOMAIN j = {"null"}
IsStr(j) == DOMAIN j = {"str"}
IsArr(j) == DOMAIN j = {"arr"}
IsObj(j) == DOMAIN j = {"obj"}
IsText(j) == DOMAIN j = {"text"}

\* Value::get(key): the member of an object, None for anything else.
Get(value, key) ==
    IF IsObj(value) /\ key \in DOMAIN value.obj THEN Some(value.obj[key]) ELSE None

\* .and_then(|v| v.as_str())
AsStr(opt) ==
    IF IsSome(opt) /\ IsStr(Unwrap(opt)) THEN Some(Unwrap(opt).str) ELSE None

\* Option::or
OrElse(a, b) == IF IsSome(a) THEN a ELSE b

-----------------------------------------------------------------------------
(* Deserialize for MastodonAccount, MastodonAttachment, MastodonStatus.     *)
(* Each parser returns Some(struct), or None for a serde error.             *)

\* field: String (required)
RequiredString(j, key) == AsStr(Get(j, key))

\* #[serde(default)] field: String
DefaultString(j, key) ==
    IF IsSome(Get(j, key)) THEN AsStr(Get(j, key)) ELSE Some(<<>>)

\* #[serde(default)] field: Option<String>
OptionalString(j, key) ==
    IF ~IsSome(Get(j, key)) \/ IsNull(Unwrap(Get(j, key))) THEN Some(None)
    ELSE IF IsStr(Unwrap(Get(j, key))) THEN Some(Some(Unwrap(Get(j, key)).str))
    ELSE None

DefaultAccount == [display_name |-> <<>>, username |-> <<>>]

ParseAccount(j) ==
    IF ~IsObj(j) THEN None
    ELSE LET display_name == DefaultString(j, "display_name")
             username == DefaultString(j, "username")
         IN  IF IsSome(display_name) /\ IsSome(username)
             THEN Some([display_name |-> Unwrap(display_name),
                        username |-> Unwrap(username)])
             ELSE None

ParseAttachment(j) ==
    IF ~IsObj(j) THEN None
    ELSE LET desc == OptionalString(j, "description")
             preview_url == OptionalString(j, "preview_url")
         IN  IF IsSome(desc) /\ IsSome(preview_url)
             THEN Some([description |-> Unwrap(desc),
                        preview_url |-> Unwrap(preview_url)])
             ELSE None

\* Vec<T>: every element must parse.
ParseAttachments(j) ==
    IF ~IsArr(j) THEN None
    ELSE IF \E i \in 1..Len(j.arr) : ~IsSome(ParseAttachment(j.arr[i])) THEN None
    ELSE Some([i \in 1..Len(j.arr) |-> Unwrap(ParseAttachment(j.arr[i]))])

RECURSIVE ParseStatus(_)
ParseStatus(j) ==
    IF ~IsObj(j) THEN None
    ELSE LET id == RequiredString(j, "id")
             uri == RequiredString(j, "uri")
             url == OptionalString(j, "url")
             account == IF IsSome(Get(j, "account"))
                        THEN ParseAccount(Unwrap(Get(j, "account")))
                        ELSE Some(DefaultAccount)
             content == DefaultString(j, "content")
             created_at == RequiredString(j, "created_at")
             reblog == IF ~IsSome(Get(j, "reblog")) \/ IsNull(Unwrap(Get(j, "reblog")))
                       THEN Some(None)
                       ELSE IF IsSome(ParseStatus(Unwrap(Get(j, "reblog"))))
                            THEN Some(Some(Unwrap(ParseStatus(Unwrap(Get(j, "reblog"))))))
                            ELSE None
             media == IF IsSome(Get(j, "media_attachments"))
                      THEN ParseAttachments(Unwrap(Get(j, "media_attachments")))
                      ELSE Some(<<>>)
         IN  IF /\ IsSome(id) /\ IsSome(uri) /\ IsSome(url) /\ IsSome(account)
                /\ IsSome(content) /\ IsSome(created_at) /\ IsSome(reblog) /\ IsSome(media)
             THEN Some([id |-> Unwrap(id), uri |-> Unwrap(uri), url |-> Unwrap(url),
                        account |-> Unwrap(account), content |-> Unwrap(content),
                        created_at |-> Unwrap(created_at), reblog |-> Unwrap(reblog),
                        media_attachments |-> Unwrap(media)])
             ELSE None

\* A parser that turns what it cannot read into an empty list.
ParseTimelineOrEmpty(body) ==
    IF ~IsArr(body) THEN Some(<<>>)
    ELSE IF \E i \in 1..Len(body.arr) : ~IsSome(ParseStatus(body.arr[i])) THEN Some(<<>>)
    ELSE Some([i \in 1..Len(body.arr) |-> Unwrap(ParseStatus(body.arr[i]))])

\* serde_json::from_str::<Vec<MastodonStatus>>(body)
ParseTimeline(body) ==
    IF ~IsArr(body) THEN None
    ELSE IF \E i \in 1..Len(body.arr) : ~IsSome(ParseStatus(body.arr[i])) THEN None
    ELSE Some([i \in 1..Len(body.arr) |-> Unwrap(ParseStatus(body.arr[i]))])

-----------------------------------------------------------------------------
(* Text helpers *)

Whitespace == {" ", "\n", "\t"}

RECURSIVE TrimStart(_)
TrimStart(s) ==
    IF s # <<>> /\ Head(s).c \in Whitespace THEN TrimStart(Tail(s)) ELSE s

RECURSIVE TrimEnd(_)
TrimEnd(s) ==
    IF s # <<>> /\ s[Len(s)].c \in Whitespace
    THEN TrimEnd(SubSeq(s, 1, Len(s) - 1))
    ELSE s

TrimNothing(s) == s
\* str::trim
Trim(s) == TrimEnd(TrimStart(s))

\* s.chars().take(n)
RECURSIVE Take(_, _)
Take(s, n) ==
    IF s = <<>> \/ n = 0 THEN <<>>
    ELSE IF Head(s).n <= n THEN <<Head(s)>> \o Take(Tail(s), n - Head(s).n)
    ELSE <<Run(Head(s).c, n)>>

-----------------------------------------------------------------------------
(* Rendered HTML.  The result of format! is the sequence of its segments:   *)
(* the template's literal pieces (markup) and the interpolated arguments,   *)
(* each tagged with what it was interpolated from (text field or URL).      *)

Markup(text) == <<[kind |-> "markup", s |-> Lit(text)]>>
Text(s) == <<[kind |-> "text", s |-> s]>>
Url(s) == <<[kind |-> "url", s |-> s]>>

-----------------------------------------------------------------------------
(* content_for *)

\* media.description.map(|d| format!(" alt=\"{}\"", d)).unwrap_or_default()
AltText(media) ==
    IF IsSome(media.description)
    THEN Markup(" alt=\"") \o Text(Unwrap(media.description)) \o Markup("\"")
    ELSE <<>>

\* The for loop over status.media_attachments, from attachment i on.
RECURSIVE AppendMedia(_, _, _)
AppendMedia(content, media_attachments, i) ==
    IF i > Len(media_attachments) THEN content
    ELSE LET media == media_attachments[i]
         IN  IF IsSome(media.preview_url)
             THEN AppendMedia(
                      Markup("\n") \o content \o Markup("<img src=\"")
                          \o Url(Unwrap(media.preview_url)) \o Markup("\"")
                          \o AltText(media) \o Markup(">"),
                      media_attachments, i + 1)
             ELSE AppendMedia(content, media_attachments, i + 1)

RECURSIVE content_for(_)
content_for(st) ==
    LET base == Markup("<p>") \o Text(st.content) \o Markup("</p>")
        with_reblog ==
            IF IsSome(st.reblog)
            THEN base \o Markup("\n") \o Text(Unwrap(st.reblog).account.display_name)
                      \o Markup(":\n<blockquote>") \o content_for(Unwrap(st.reblog))
                      \o Markup("</blockquote>")
            ELSE base
    IN  AppendMedia(with_reblog, st.media_attachments, 1)

-----------------------------------------------------------------------------
(* Timestamps: DateTime::parse_from_rfc3339 and DateTime::to_rfc2822 on the *)
(* timestamp strings of the model.                                          *)

DateTime(y, mo, d, h, mi, sec, off) ==
    [date |-> <<y, mo, d>>, time |-> <<h, mi, sec>>, offset |-> off]

parse_from_rfc3339(s) ==
    IF s = Lit("2021-01-01T12:00:00+00:00") THEN Some(DateTime(2021, 1, 1, 12, 0, 0, "+0000"))
    ELSE IF s = Lit("2023-01-01T12:34:56Z") THEN Some(DateTime(2023, 1, 1, 12, 34, 56, "+0000"))
    ELSE IF s = Lit("2024-02-29T23:59:59+02:00") THEN Some(DateTime(2024, 2, 29, 23, 59, 59, "+0200"))
    ELSE None

MonthOffsets == <<0, 3, 2, 5, 0, 3, 5, 1, 4, 6, 2, 4>>
WeekdayNames == <<"Sun", "Mon", "Tue", "Wed", "Thu", "Fri", "Sat">>
MonthNames == <<"Jan", "Feb", "Mar", "Apr", "May", "Jun",
                "Jul", "Aug", "Sep", "Oct", "Nov", "Dec">>

Weekday(y, mo, d) ==
    LET yy == IF mo < 3 THEN y - 1 ELSE y
    IN  WeekdayNames[((yy + (yy \div 4) - (yy \div 100) + (yy \div 400)
                       + MonthOffsets[mo] + d) % 7) + 1]

\* "Fri, 01 Jan 2021 12:00:00 +0000", kept as its fields.
to_rfc2822(dt) ==
    [weekday |-> Weekday(dt.date[1], dt.date[2], dt.date[3]),
     day |-> dt.date[3], month |-> MonthNames[dt.date[2]], year |-> dt.date[1],
     time |-> dt.time, zone |-> dt.offset]

mastodon_pub_date_EpochDefault(value) ==
    IF IsSome(parse_from_rfc3339(value))
    THEN Some(to_rfc2822(Unwrap(parse_from_rfc3339(value))))
    ELSE Some(to_rfc2822(DateTime(1970, 1, 1, 0, 0, 0, "+0000")))

mastodon_pub_date(value) ==
    IF IsSome(parse_from_rfc3339(value))
    THEN Some(to_rfc2822(Unwrap(parse_from_rfc3339(value))))
    ELSE None

-----------------------------------------------------------------------------
(* create_feed.  `lib` is the behaviour of the rss crate in this call:      *)
(* "ok", or the builder or writer call that reports an error.               *)

LibOutcomes == {"ok", "item", "channel", "write"}

Guid(value, permalink) == [value |-> value, permalink |-> permalink]

MastodonItem(post) ==
    [description |-> content_for(post),
     title |-> IF Trim(post.account.display_name) = <<>>
               THEN post.account.username
               ELSE post.account.display_name,
     pub_date |-> mastodon_pub_date(post.created_at),
     link |-> IF IsSome(post.url) THEN Unwrap(post.url) ELSE post.uri,
     guid |-> Guid(post.id, FALSE),
     enclosure |-> None,
     extensions |-> None]

\* The for loop: post_items.push(item) for each post, in order.
RECURSIVE MastodonItemsFrom(_, _)
MastodonItemsFrom(ps, post_items) ==
    IF ps = <<>> THEN post_items
    ELSE MastodonItemsFrom(Tail(ps), Append(post_items, MastodonItem(Head(ps))))

RECURSIVE MastodonItemsPrepended(_, _)
MastodonItemsPrepended(ps, post_items) ==
    IF ps = <<>> THEN post_items
    ELSE MastodonItemsPrepended(Tail(ps), <<MastodonItem(Head(ps))>> \o post_items)

Channel(items, link, title, desc, namespaces) ==
    [items |-> items, link |-> link, title |-> title, description |-> desc,
     namespaces |-> namespaces]

MastodonItemsReversed(ps) == MastodonItemsPrepended(ps, <<>>)
MastodonItems(ps) == MastodonItemsFrom(ps, <<>>)

create_feed(ps, mastodon_instance_url, lib) ==
    IF lib = "item" /\ ps # <<>> THEN Err(InternalError("RSSItemError"))
    ELSE IF lib \in {"channel", "write"} THEN Err(InternalError("ChannelError"))
    ELSE Ok(Channel(MastodonItems(ps), mastodon_instance_url,
                    "Mastodon Timeline", "Mastodon Timeline", {}))

-----------------------------------------------------------------------------
(* Display and ResponseError for UserError *)

to_string(e) ==
    CASE e.kind = "InternalError" -> Lit("An internal error occurred. Please try again later.")
      [] e.kind = "InvalidInstance" -> Lit("Invalid Mastodon instance format.")
      [] e.kind = "MissingAccessToken" -> Lit("Access token is required.")
      [] e.kind = "MastodonApiError" -> Lit("Mastodon API error: ") \o e.message
      [] e.kind = "MissingBlueskyCredentials" -> Lit("Bluesky credentials are required.")

status_code_UpstreamAsInternal(e) ==
    IF e.kind \in {"InternalError", "MastodonApiError"} THEN 500 ELSE 400
status_code(e) == IF e.kind = "InternalError" THEN 500 ELSE 400

TextBody(text) == [kind |-> "text", text |-> text, channel |-> None]
RssBody(channel) == [kind |-> "rss", text |-> <<>>, channel |-> Some(channel)]

error_response(e) ==
    [status |-> status_code(e), content_type |-> "text/html; charset=utf-8",
     body |-> TextBody(to_string(e))]

NoResponse == [status |-> 0, content_type |-> "", body |-> TextBody(<<>>)]

-----------------------------------------------------------------------------
(* fetch_mastodon_timeline and mastodon_error_message *)

PreviewLen == 500

\* serde_json::from_str::<Value>(body).ok()
ParseJson(body) == IF IsText(body) THEN None ELSE Some(body)

mastodon_error_message_MessageFirst(body) ==
    IF ~IsSome(ParseJson(body)) THEN None
    ELSE LET value == Unwrap(ParseJson(body))
         IN  OrElse(OrElse(AsStr(Get(value, "message")), AsStr(Get(value, "error"))),
                    AsStr(Get(value, "error_description")))

mastodon_error_message(body) ==
    IF ~IsSome(ParseJson(body)) THEN None
    ELSE LET value == Unwrap(ParseJson(body))
             error == AsStr(Get(value, "error"))
             desc == AsStr(Get(value, "error_description"))
             message == AsStr(Get(value, "message"))
         IN  OrElse(OrElse(error, desc), message)

is_success(code) == 200 <= code /\ code <= 299

CodeText(code) == CASE code = 200 -> "200" [] code = 401 -> "401" [] code = 503 -> "503"

\* Body preview of the log line.  The bodies of the model that are JSON are
\* shorter than PreviewLen characters and are logged whole.
Preview(body) == IF IsText(body) THEN JText(Take(body.text, PreviewLen)) ELSE body

GetRequest(instance_url, token) ==
    [url |-> instance_url \o Lit("api/v1/timelines/home"), bearer_auth |-> token,
     query |-> <<"limit", "40">>]

SendError == [kind |-> "send_error", status |-> 0, body |-> JNull]
ReadError(code) == [kind |-> "read_error", status |-> code, body |-> JNull]
Response(code, body) == [kind |-> "response", status |-> code, body |-> body]
NoReply == [kind |-> "none", status |-> 0, body |-> JNull]

LogLine(template, args) == [template |-> template, args |-> args]

\* The part of fetch_mastodon_timeline after the request was sent: its result
\* and the lines it logs, for the upstream's answer r.
FetchResult(r) ==
    IF r.kind \in {"send_error", "read_error"} THEN Err(UserError("InternalError"))
    ELSE IF ~is_success(r.status)
    THEN Err(MastodonApiError(
             IF IsSome(mastodon_error_message(r.body))
             THEN Unwrap(mastodon_error_message(r.body))
             ELSE Lit("HTTP ") \o Lit(CodeText(r.status)) \o Lit(" from Mastodon API.")))
    ELSE IF IsSome(ParseTimeline(r.body)) THEN Ok(Unwrap(ParseTimeline(r.body)))
    ELSE IF IsSome(mastodon_error_message(r.body))
    THEN Err(MastodonApiError(Unwrap(mastodon_error_message(r.body))))
    ELSE Err(MastodonApiError(Lit("Unexpected response from Mastodon API.")))

FetchLog(r) ==
    IF r.kind = "send_error"
    THEN <<LogLine("Failed to fetch Mastodon timeline: {e}", <<>>)>>
    ELSE IF r.kind = "read_error"
    THEN <<LogLine("Failed to read Mastodon timeline response: {e}", <<>>)>>
    ELSE IF ~is_success(r.status)
    THEN <<LogLine("Mastodon API returned error status {}: {}",
                   <<ErrOf(FetchResult(r)).message>>)>>
    ELSE IF IsSome(ParseTimeline(r.body)) THEN <<>>
    ELSE IF IsSome(mastodon_error_message(r.body))
    THEN <<LogLine("Mastodon API error payload: {}", <<ErrOf(FetchResult(r)).message>>)>>
    ELSE <<LogLine("Failed to decode Mastodon timeline: {err}. Body preview: {preview}",
                   <<Preview(r.body)>>)>>

-----------------------------------------------------------------------------
(* The Bluesky renderer *)

\* str::replace(from, to): every occurrence of the character, left to right.
RECURSIVE Repeat(_, _)
Repeat(s, n) == IF n = 0 THEN <<>> ELSE s \o Repeat(s, n - 1)

RECURSIVE Replace(_, _, _)
Replace(s, from, to) ==
    IF s = <<>> THEN <<>>
    ELSE IF Head(s).c = from THEN Repeat(to, Head(s).n) \o Replace(Tail(s), from, to)
    ELSE <<Head(s)>> \o Replace(Tail(s), from, to)

Chars(cs) == [i \in 1..Len(cs) |-> Run(cs[i], 1)]

bluesky_escape_html(text) ==
    Replace(Replace(Replace(Replace(text,
                                    "&", Chars(<<"&", "a", "m", "p", ";">>)),
                            "<", Chars(<<"&", "l", "t", ";">>)),
                    ">", Chars(<<"&", "g", "t", ";">>)),
            "\"", Chars(<<"&", "q", "u", "o", "t", ";">>))

\* opt.and_then(|v| v.get(key))
GetOpt(opt, key) == IF IsSome(opt) THEN Get(Unwrap(opt), key) ELSE None

\* .and_then(|v| v.as_array())
AsArray(opt) ==
    IF IsSome(opt) /\ IsArr(Unwrap(opt)) THEN Some(Unwrap(opt).arr) ELSE None

\* .filter(|name| !name.trim().is_empty())
NonBlank(opt) == IF IsSome(opt) /\ Trim(Unwrap(opt)) # <<>> THEN opt ELSE None

\* Iterator::last of a non-empty split
Last(seq) == seq[Len(seq)]

bluesky_post_link(handle, uri) ==
    Lit("https://bsky.app/profile/") \o handle \o Lit("/post/") \o Last(Split(uri, "/"))

bluesky_text_from_record(record) ==
    IF IsSome(AsStr(Get(record, "text")))
    THEN Some(Markup("<p>") \o Text(bluesky_escape_html(Unwrap(AsStr(Get(record, "text")))))
                  \o Markup("</p>"))
    ELSE None

bluesky_repost_by(reason) ==
    IF ~IsSome(reason) THEN None
    ELSE IF ~IsSome(AsStr(Get(Unwrap(reason), "$type"))) THEN None
    ELSE IF Unwrap(AsStr(Get(Unwrap(reason), "$type"))) # Lit("app.bsky.feed.defs#reasonRepost")
    THEN None
    ELSE IF ~IsSome(Get(Unwrap(reason), "by")) THEN None
    ELSE LET author == Unwrap(Get(Unwrap(reason), "by"))
             display_name == NonBlank(AsStr(Get(author, "displayName")))
             handle == AsStr(Get(author, "handle"))
         IN  IF IsSome(OrElse(display_name, handle))
             THEN Some(bluesky_escape_html(Unwrap(OrElse(display_name, handle))))
             ELSE None

bluesky_images_html(embed) ==
    LET images == AsArray(Get(embed, "images"))
        ImageHtml(item) ==
            IF IsSome(AsStr(Get(item, "fullsize")))
            THEN <<Markup("<p><img src=\"") \o Url(Unwrap(AsStr(Get(item, "fullsize"))))
                     \o Markup("\" alt=\"")
                     \o Text(bluesky_escape_html(
                            IF IsSome(AsStr(Get(item, "alt")))
                            THEN Unwrap(AsStr(Get(item, "alt"))) ELSE <<>>))
                     \o Markup("\"></p>")>>
            ELSE <<>>
        RECURSIVE FilterMap(_)
        FilterMap(items) ==
            IF items = <<>> THEN <<>>
            ELSE ImageHtml(Head(items)) \o FilterMap(Tail(items))
    IN  IF IsSome(images) THEN FilterMap(Unwrap(images)) ELSE <<>>

bluesky_video_html(embed) ==
    LET StrOr(key, default) ==
            IF IsSome(AsStr(Get(embed, key))) THEN Unwrap(AsStr(Get(embed, key)))
            ELSE default
        playlist == StrOr("playlist", <<>>)
        alt == StrOr("alt", Lit("Video thumbnail"))
        thumbnail == StrOr("thumbnail", <<>>)
    IN  IF playlist = <<>> THEN <<>>
        ELSE (IF thumbnail # <<>>
              THEN <<Markup("<p><a href=\"") \o Url(playlist) \o Markup("\"><img src=\"")
                       \o Url(thumbnail) \o Markup("\" alt=\"")
                       \o Text(bluesky_escape_html(alt)) \o Markup("\"></a></p>")>>
              ELSE <<>>)
             \o <<Markup("<p><a href=\"") \o Url(playlist) \o Markup("\">Video</a></p>")>>

bluesky_quote_html(embed) ==
    IF ~IsSome(Get(embed, "record")) THEN None
    ELSE LET record == Unwrap(Get(embed, "record"))
         IN  IF ~IsSome(AsStr(Get(record, "$type"))) THEN None
             ELSE IF Unwrap(AsStr(Get(record, "$type"))) # Lit("app.bsky.embed.record#viewRecord")
             THEN None
             ELSE LET author == Get(record, "author")
                      named == OrElse(NonBlank(AsStr(GetOpt(author, "displayName"))),
                                      AsStr(GetOpt(author, "handle")))
                      author_name == IF IsSome(named) THEN Unwrap(named) ELSE Lit("Unknown")
                      handle == AsStr(GetOpt(author, "handle"))
                      text == IF IsSome(AsStr(GetOpt(Get(record, "value"), "text")))
                              THEN Unwrap(AsStr(GetOpt(Get(record, "value"), "text")))
                              ELSE <<>>
                      uri == AsStr(Get(record, "uri"))
                      link == IF IsSome(handle) /\ IsSome(uri)
                              THEN bluesky_post_link(Unwrap(handle), Unwrap(uri))
                              ELSE <<>>
                  IN  Some(Markup("<blockquote>")
                           \o Markup("<p><strong>") \o Text(bluesky_escape_html(author_name))
                           \o Markup("</strong></p>")
                           \o (IF Trim(text) # <<>>
                               THEN Markup("<p>") \o Text(bluesky_escape_html(text)) \o Markup("</p>")
                               ELSE <<>>)
                           \o (IF link # <<>>
                               THEN Markup("<p><a href=\"") \o Url(link)
                                        \o Markup("\">View quoted post</a></p>")
                               ELSE <<>>)
                           \o Markup("</blockquote>"))

\* Option<String>::into_iter().collect()
OptionToVec(opt) == IF IsSome(opt) THEN <<Unwrap(opt)>> ELSE <<>>

RECURSIVE bluesky_embed_html(_)
bluesky_embed_html(embed) ==
    LET embed_type == AsStr(Get(embed, "$type"))
    IN  IF embed_type = Some(Lit("app.bsky.embed.images#view")) THEN bluesky_images_html(embed)
        ELSE IF embed_type = Some(Lit("app.bsky.embed.video#view")) THEN bluesky_video_html(embed)
        ELSE IF embed_type = Some(Lit("app.bsky.embed.record#view"))
        THEN OptionToVec(bluesky_quote_html(embed))
        ELSE IF embed_type = Some(Lit("app.bsky.embed.recordWithMedia#view"))
        THEN (IF IsSome(Get(embed, "record"))
              THEN OptionToVec(bluesky_quote_html(Unwrap(Get(embed, "record"))))
              ELSE <<>>)
             \o (IF IsSome(Get(embed, "media"))
                 THEN bluesky_embed_html(Unwrap(Get(embed, "media")))
                 ELSE <<>>)
        ELSE <<>>

\* [String]::join(sep)
RECURSIVE Join(_, _)
Join(parts, sep) ==
    IF parts = <<>> THEN <<>>
    ELSE IF Len(parts) = 1 THEN parts[1]
    ELSE parts[1] \o Markup(sep) \o Join(Tail(parts), sep)

bluesky_content_from_record(record, embed, reason) ==
    LET reposter == bluesky_repost_by(reason)
        parts ==
            (IF IsSome(reposter)
             THEN <<Markup("<p><em>Reposted by ") \o Text(Unwrap(reposter))
                      \o Markup("</em></p>")>>
             ELSE <<>>)
            \o OptionToVec(bluesky_text_from_record(record))
            \o (IF IsSome(embed) THEN bluesky_embed_html(Unwrap(embed)) ELSE <<>>)
    IN  Join(parts, "\n")

-----------------------------------------------------------------------------
(* create_bluesky_feed *)

bluesky_image_enclosure(url) == [url |-> url, length |-> "0", mime_type |-> "image/jpeg"]

bluesky_media_extensions(url) ==
    [name |-> "media:content",
     attrs |-> [url |-> url, medium |-> Lit("image"), type |-> Lit("image/jpeg")]]

BlueskyItem(post) ==
    [description |-> post.content,
     title |-> post.author_display_name,
     pub_date |-> IF IsSome(post.created_at)
                  THEN Some(to_rfc2822(Unwrap(post.created_at)))
                  ELSE None,
     link |-> bluesky_post_link(post.author_handle, post.id),
     guid |-> Guid(post.id, FALSE),
     enclosure |-> post.enclosure,
     extensions |-> IF IsSome(post.media_thumbnail)
                    THEN Some(bluesky_media_extensions(Unwrap(post.media_thumbnail)))
                    ELSE None]

RECURSIVE BlueskyItemsFrom(_, _)
BlueskyItemsFrom(ps, post_items) ==
    IF ps = <<>> THEN post_items
    ELSE BlueskyItemsFrom(Tail(ps), Append(post_items, BlueskyItem(Head(ps))))

BlueskyItems(ps) == BlueskyItemsFrom(ps, <<>>)

create_bluesky_feed(ps, lib) ==
    IF lib = "item" /\ ps # <<>> THEN Err(InternalError("RSSItemError"))
    ELSE IF lib \in {"channel", "write"} THEN Err(InternalError("ChannelError"))
    ELSE Ok(Channel(BlueskyItems(ps), Lit("https://bsky.app"),
                    "Bluesky Timeline", "Bluesky Timeline",
                    {<<"media", "http://search.yahoo.com/mrss/">>}))

-----------------------------------------------------------------------------
(* bluesky_post_from_feed.  A feed item is the fields the function reads:   *)
(* the serialized record, embed and reason (None when serde_json::to_value  *)
(* fails), indexed_at, the post's uri and the author's handle and optional  *)
(* display name.                                                            *)

RECURSIVE bluesky_enclosure_from_embed(_)
bluesky_enclosure_from_embed(embed) ==
    IF ~IsSome(embed) THEN None
    ELSE LET embed_type == AsStr(Get(Unwrap(embed), "$type"))
         IN  IF ~IsSome(embed_type) THEN None
             ELSE IF Unwrap(embed_type) = Lit("app.bsky.embed.images#view")
             THEN LET images == AsArray(Get(Unwrap(embed), "images"))
                  IN  IF ~IsSome(images) THEN None
                      ELSE IF Unwrap(images) = <<>> THEN None
                      ELSE LET first == Unwrap(images)[1]
                               url == AsStr(OrElse(Get(first, "thumb"),
                                                   Get(first, "fullsize")))
                           IN  IF IsSome(url)
                               THEN Some(bluesky_image_enclosure(Unwrap(url)))
                               ELSE None
             ELSE IF Unwrap(embed_type) = Lit("app.bsky.embed.video#view")
             THEN LET thumbnail == AsStr(Get(Unwrap(embed), "thumbnail"))
                  IN  IF IsSome(thumbnail)
                      THEN Some(bluesky_image_enclosure(Unwrap(thumbnail)))
                      ELSE None
             ELSE IF Unwrap(embed_type) = Lit("app.bsky.embed.recordWithMedia#view")
             THEN IF IsSome(Get(Unwrap(embed), "media"))
                  THEN bluesky_enclosure_from_embed(Get(Unwrap(embed), "media"))
                  ELSE None
             ELSE None

RECURSIVE bluesky_media_thumbnail_from_embed(_)
bluesky_media_thumbnail_FullsizeFirst(embed) ==
    IF ~IsSome(embed) THEN None
    ELSE LET embed_type == AsStr(Get(Unwrap(embed), "$type"))
         IN  IF ~IsSome(embed_type) THEN None
             ELSE IF Unwrap(embed_type) = Lit("app.bsky.embed.images#view")
             THEN LET images == AsArray(Get(Unwrap(embed), "images"))
                  IN  IF ~IsSome(images) THEN None
                      ELSE IF Unwrap(images) = <<>> THEN None
                      ELSE LET first == Unwrap(images)[1]
                           IN  AsStr(OrElse(Get(first, "fullsize"), Get(first, "thumb")))
             ELSE IF Unwrap(embed_type) = Lit("app.bsky.embed.video#view")
             THEN AsStr(Get(Unwrap(embed), "thumbnail"))
             ELSE IF Unwrap(embed_type) = Lit("app.bsky.embed.recordWithMedia#view")
             THEN IF IsSome(Get(Unwrap(embed), "media"))
                  THEN bluesky_media_thumbnail_from_embed(Get(Unwrap(embed), "media"))
                  ELSE None
             ELSE None

bluesky_media_thumbnail_from_embed(embed) ==
    IF ~IsSome(embed) THEN None
    ELSE LET embed_type == AsStr(Get(Unwrap(embed), "$type"))
         IN  IF ~IsSome(embed_type) THEN None
             ELSE IF Unwrap(embed_type) = Lit("app.bsky.embed.images#view")
             THEN LET images == AsArray(Get(Unwrap(embed), "images"))
                  IN  IF ~IsSome(images) THEN None
                      ELSE IF Unwrap(images) = <<>> THEN None
                      ELSE LET first == Unwrap(images)[1]
                           IN  AsStr(OrElse(Get(first, "thumb"), Get(first, "fullsize")))
             ELSE IF Unwrap(embed_type) = Lit("app.bsky.embed.video#view")
             THEN AsStr(Get(Unwrap(embed), "thumbnail"))
             ELSE IF Unwrap(embed_type) = Lit("app.bsky.embed.recordWithMedia#view")
             THEN IF IsSome(Get(Unwrap(embed), "media"))
                  THEN bluesky_media_thumbnail_from_embed(Get(Unwrap(embed), "media"))
                  ELSE None
             ELSE None

\* DateTime::with_timezone(&Utc) on the offsets of the model's timestamps
\* (whole hours east of UTC; no timestamp of the model crosses a month).
OffsetHours(offset) == IF offset = "+0200" THEN 2 ELSE 0

with_timezone_utc(dt) ==
    LET hour == dt.time[1] - OffsetHours(dt.offset)
    IN  IF hour >= 0
        THEN DateTime(dt.date[1], dt.date[2], dt.date[3],
                      hour, dt.time[2], dt.time[3], "+0000")
        ELSE DateTime(dt.date[1], dt.date[2], dt.date[3] - 1,
                      hour + 24, dt.time[2], dt.time[3], "+0000")

bluesky_parse_timestamp(value) ==
    IF IsSome(parse_from_rfc3339(value))
    THEN Some(with_timezone_utc(Unwrap(parse_from_rfc3339(value))))
    ELSE None

bluesky_created_at(record) ==
    LET value == AsStr(OrElse(Get(record, "createdAt"), Get(record, "created_at")))
    IN  IF IsSome(value) THEN bluesky_parse_timestamp(Unwrap(value)) ELSE None

bluesky_post_from_feed(feed_item) ==
    IF ~IsSome(feed_item.record) THEN None
    ELSE Some([id |-> feed_item.uri,
               author_handle |-> feed_item.handle,
               author_display_name |->
                   IF IsSome(feed_item.display_name) THEN Unwrap(feed_item.display_name)
                   ELSE feed_item.handle,
               content |-> bluesky_content_from_record(
                               Unwrap(feed_item.record), feed_item.embed, feed_item.reason),
               created_at |-> OrElse(bluesky_created_at(Unwrap(feed_item.record)),
                                     bluesky_parse_timestamp(feed_item.indexed_at)),
               enclosure |-> bluesky_enclosure_from_embed(feed_item.embed),
               media_thumbnail |-> bluesky_media_thumbnail_from_embed(feed_item.embed)])

-----------------------------------------------------------------------------
(* Values of the variables a specification does not use *)

handlerVars == <<access_token, pc, sent, reply, rss_lib, response, stderr>>
renderVars == <<status, bsky, description>>
assembleVars == <<posts, feed_output>>

HandlerIdle ==
    /\ access_token = <<>> /\ pc = "unused" /\ sent = <<>> /\ reply = NoReply
    /\ rss_lib = "ok" /\ response = NoResponse /\ stderr = <<>>
RenderIdle == status = None /\ bsky = None /\ description = None
AssembleIdle == posts = None /\ feed_output = Pending

-----------------------------------------------------------------------------
(* SpecValidate: validate_mastodon_instance applied to each hostname *)

InitValidate ==
    /\ instance \in Hostnames(MaxHostRuns)
    /\ validated = Pending
    /\ HandlerIdle /\ RenderIdle /\ AssembleIdle

Validate ==
    /\ validated = Pending
    /\ validated' = validate_mastodon_instance(instance)
    /\ UNCHANGED <<instance, handlerVars, renderVars, assembleVars>>

NextValidate == Validate

SpecValidate == InitValidate /\ [][NextValidate]_vars

-----------------------------------------------------------------------------
(* SpecFeed: the handler of GET /{mastodon_instance}/{access_token}.        *)
(* FeedBegin runs it up to its await on the upstream request; FeedResume    *)
(* runs it from the upstream's answer to the response.                      *)

MaxTokenLen == 2
MaxPosts == 2

\* Path segments are never empty (the router matches one or more characters).
FeedHostChars == {"a", "-", ".", "/"}
FeedHosts == SeqsUpTo({Run(c, 1) : c \in FeedHostChars}, MaxFeedHostRuns) \ {<<>>}
Tokens == SeqsUpTo({Run("t", 1), Run(" ", 1)}, MaxTokenLen) \ {<<>>}

StatusCodes == {200, 401, 503}

LongText == <<Run("x", PreviewLen + 1)>>

ErrorKeys == {"error", "error_description", "message"}
ErrorValues == {JStr(Lit("invalid_token")), JStr(LongText), JNum}
ErrorObjects == UNION {{JObj(f) : f \in [K -> ErrorValues]} : K \in SUBSET ErrorKeys}

TextBodies == {JText(Lit("<html>Bad Gateway</html>")), JText(LongText)}

RawUri == JStr(Lit("https://example.com/status/1"))
RawTime == JStr(Lit("2021-01-01T12:00:00+00:00"))
RawPlain == JObj([id |-> JStr(Lit("status-1")), uri |-> RawUri, created_at |-> RawTime])
RawEmptyId == JObj([id |-> JStr(<<>>), uri |-> RawUri, created_at |-> RawTime])
RawNoId == JObj([uri |-> RawUri, created_at |-> RawTime])
RawFull ==
    JObj([id |-> JStr(Lit("status-2")), uri |-> RawUri,
          url |-> JStr(Lit("https://example.com/@user/1")),
          account |-> JObj([display_name |-> JStr(Lit("Display Name")),
                            username |-> JStr(Lit("user"))]),
          content |-> JStr(Lit("Hello")),
          created_at |-> JStr(Lit("yesterday")),
          reblog |-> RawPlain,
          media_attachments |->
              JArr(<<JObj([preview_url |-> JStr(Lit("https://example.com/img.png")),
                           description |-> JNull])>>)])
RawPosts == {RawPlain, RawEmptyId, RawNoId, RawFull, JNum}

Timelines == {JArr(a) : a \in SeqsUpTo(RawPosts, MaxPosts)}

Bodies == ErrorObjects \cup TextBodies \cup Timelines \cup {JNum, JNull}

Replies ==
    {SendError} \cup {ReadError(c) : c \in StatusCodes}
        \cup {Response(c, b) : c \in StatusCodes, b \in Bodies}

InitFeed ==
    /\ instance \in FeedHosts
    /\ access_token \in Tokens
    /\ validated = Pending
    /\ pc = "start" /\ sent = <<>> /\ reply = NoReply /\ rss_lib = "ok"
    /\ response = NoResponse /\ stderr = <<>>
    /\ RenderIdle /\ AssembleIdle

TokenBlankUntrimmed(token) == TrimNothing(token) = <<>>
\* access_token.trim().is_empty()
TokenBlank(token) == Trim(token) = <<>>

FeedBegin ==
    /\ pc = "start"
    /\ validated' = validate_mastodon_instance(instance)
    /\ IF ~validated'.ok
       THEN /\ response' = error_response(ErrOf(validated'))
            /\ pc' = "done"
            /\ UNCHANGED sent
       ELSE IF TokenBlank(access_token)
       THEN /\ response' = error_response(UserError("MissingAccessToken"))
            /\ pc' = "done"
            /\ UNCHANGED sent
       ELSE /\ sent' = Append(sent, GetRequest(Val(validated'), access_token))
            /\ pc' = "awaiting"
            /\ UNCHANGED response
    /\ UNCHANGED <<instance, access_token, reply, rss_lib, stderr, renderVars, assembleVars>>

\* create_feed runs only when the fetch returned posts; lib is what the rss
\* crate does then.
FeedResume(r, lib) ==
    /\ pc = "awaiting"
    /\ lib = "ok" \/ FetchResult(r).ok
    /\ reply' = r
    /\ rss_lib' = lib
    /\ IF ~FetchResult(r).ok
       THEN /\ response' = error_response(ErrOf(FetchResult(r)))
            /\ stderr' = stderr \o FetchLog(r)
       ELSE LET built == create_feed(Val(FetchResult(r)), Val(validated), lib)
            IN  IF built.ok
                THEN /\ response' = [status |-> 200, content_type |-> "application/rss+xml",
                                     body |-> RssBody(Val(built))]
                     /\ stderr' = stderr \o FetchLog(r)
                ELSE /\ response' = error_response(UserError("InternalError"))
                     /\ stderr' = stderr \o FetchLog(r)
                            \o <<LogLine("Failed to build Mastodon RSS feed: {e}", <<>>)>>
    /\ pc' = "done"
    /\ UNCHANGED <<instance, access_token, validated, sent, renderVars, assembleVars>>

NextFeed ==
    \/ FeedBegin
    \/ \E r \in Replies, lib \in LibOutcomes : FeedResume(r, lib)

SpecFeed == InitFeed /\ [][NextFeed]_vars

-----------------------------------------------------------------------------
(* SpecRender: content_for on bounded statuses, and                         *)
(* bluesky_content_from_record on bounded records, embeds and reasons.      *)

MaxReblogDepth == 2
MaxMedia == 2
MaxImages == 2
MaxEmbedDepth == 2

\* The sample texts of a field: a plain one and one holding every character
\* that HTML escaping is about.
PlainText(tag) == Chars(<<tag>>)
HostileText(tag) == Chars(<<"<", tag, "&", ">", "\"">>)
BlankText == Chars(<<" ">>)

SampleUri == Lit("https://example.com/status/1")
SampleUrl == Lit("https://example.com/@user/1")
SampleTime == Lit("2021-01-01T12:00:00+00:00")
PreviewUrl == Lit("https://example.com/img.png")
PreviewUrl2 == Lit("https://example.com/img2.png")

Status(id, content, account, created_at, url, reblog, media) ==
    [id |-> id, uri |-> SampleUri, url |-> url, account |-> account,
     content |-> content, created_at |-> created_at, reblog |-> reblog,
     media_attachments |-> media]

Account(display_name) == [display_name |-> display_name, username |-> Lit("user")]

Contents == {PlainText("c"), HostileText("c")}
Accounts == {Account(n) : n \in {<<>>, PlainText("n"), HostileText("n")}}
RebloggedAccounts == {Account(n) : n \in {PlainText("r"), HostileText("r")}}
Attachment(alt, url) ==
    [description |-> alt, preview_url |-> url]

\* An attachment without a URL, with an empty one, and with two different
\* URLs; descriptions absent, plain and holding the escaped characters.
Attachments ==
    {Attachment(None, None),
     Attachment(Some(PlainText("d")), None),
     Attachment(None, Some(<<>>)),
     Attachment(Some(HostileText("d")), Some(PreviewUrl)),
     Attachment(None, Some(PreviewUrl2))}

RECURSIVE Reblogged(_)
Reblogged(depth) ==
    IF depth = 0 THEN {}
    ELSE {Status(Lit("status-2"), c, a, SampleTime, Some(SampleUrl), r, <<>>) :
             c \in Contents, a \in RebloggedAccounts,
             r \in {None} \cup {Some(x) : x \in Reblogged(depth - 1)}}

RenderStatuses(depth, media) ==
    {Status(Lit("status-1"), c, a, SampleTime, Some(SampleUrl), r, m) :
        c \in Contents, a \in Accounts,
        r \in {None} \cup {Some(x) : x \in Reblogged(depth)},
        m \in SeqsUpTo(Attachments, media)}

\* JSON objects from sets of <<key, value>> pairs; an absent option adds no key.
Obj(pairs) ==
    JObj([k \in {p[1] : p \in pairs} |-> (CHOOSE p \in pairs : p[1] = k)[2]])
Opt(key, o) == IF IsSome(o) THEN {<<key, Unwrap(o)>>} ELSE {}
Type(name) == {<<"$type", JStr(Lit(name))>>}
Maybe(S) == {None} \cup {Some(x) : x \in S}

AtUri ==
    Lit("at:") \o <<Run("/", 2)>> \o Lit("did:plc:123") \o <<Run("/", 1)>>
        \o Lit("app.bsky.feed.post") \o <<Run("/", 1)>> \o Lit("abc")
Handle == Lit("user.bsky.social")
FullsizeUrl == Lit("https://cdn.bsky.app/img/fullsize.jpg")
FullsizeUrl2 == Lit("https://cdn.bsky.app/img/fullsize2.jpg")
ThumbUrl == Lit("https://cdn.bsky.app/img/thumb.jpg")
PlaylistUrl == Lit("https://video.bsky.app/playlist.m3u8")

BskyRecords ==
    {Obj(Opt("text", t)) :
        t \in Maybe({JStr(PlainText("c")), JStr(HostileText("c")), JNum})}

BskyAuthors ==
    {Obj(Opt("displayName", n) \cup Opt("handle", h)) :
        n \in Maybe({JStr(BlankText), JStr(HostileText("n"))}), h \in Maybe({JStr(Handle)})}

BskyReasons ==
    {None, Some(JNull), Some(Obj(Type("app.bsky.feed.defs#reasonPin"))),
     Some(Obj(Type("app.bsky.feed.defs#reasonRepost")))}
        \cup {Some(Obj(Type("app.bsky.feed.defs#reasonRepost") \cup {<<"by", a>>})) :
                 a \in BskyAuthors}

ImageViews ==
    {Obj(Opt("fullsize", f) \cup Opt("alt", a)) :
        f \in Maybe({JStr(<<>>), JStr(FullsizeUrl), JStr(FullsizeUrl2)}),
        a \in Maybe({JStr(HostileText("a"))})}

ImagesEmbeds ==
    {Obj(Type("app.bsky.embed.images#view") \cup {<<"images", JArr(imgs)>>}) :
        imgs \in SeqsUpTo(ImageViews, MaxImages)}

VideoEmbeds ==
    {Obj(Type("app.bsky.embed.video#view") \cup Opt("playlist", p)
             \cup Opt("thumbnail", t) \cup Opt("alt", a)) :
        p \in Maybe({JStr(<<>>), JStr(PlaylistUrl)}),
        t \in Maybe({JStr(<<>>), JStr(ThumbUrl)}),
        a \in Maybe({JStr(HostileText("v"))})}

ViewRecords ==
    {Obj(Type("app.bsky.embed.record#viewRecord") \cup Opt("author", au)
             \cup Opt("value", v) \cup Opt("uri", u)) :
        au \in Maybe(BskyAuthors),
        v \in Maybe({Obj({<<"text", JStr(BlankText)>>}),
                     Obj({<<"text", JStr(HostileText("q"))>>})}),
        u \in Maybe({JStr(AtUri)})}

QuoteEmbeds ==
    {Obj(Type("app.bsky.embed.record#view") \cup Opt("record", r)) :
        r \in Maybe(ViewRecords \cup {Obj(Type("app.bsky.embed.record#viewNotFound"))})}

SampleViewRecord ==
    Obj(Type("app.bsky.embed.record#viewRecord")
            \cup {<<"author", Obj({<<"displayName", JStr(HostileText("n"))>>,
                                   <<"handle", JStr(Handle)>>})>>,
                  <<"value", Obj({<<"text", JStr(HostileText("q"))>>})>>,
                  <<"uri", JStr(AtUri)>>})

SampleImages ==
    Obj(Type("app.bsky.embed.images#view")
            \cup {<<"images", JArr(<<Obj({<<"fullsize", JStr(FullsizeUrl)>>,
                                          <<"alt", JStr(HostileText("a"))>>})>>)>>})
SampleVideo ==
    Obj(Type("app.bsky.embed.video#view")
            \cup {<<"playlist", JStr(PlaylistUrl)>>, <<"thumbnail", JStr(ThumbUrl)>>})

RECURSIVE RecordWithMedia(_)
RecordWithMedia(depth) ==
    IF depth = 0 THEN {}
    ELSE {Obj(Type("app.bsky.embed.recordWithMedia#view") \cup Opt("record", r)
                  \cup Opt("media", m)) :
             r \in Maybe({Obj({<<"record", SampleViewRecord>>}),
                          Obj(Type("app.bsky.embed.record#view"))}),
             m \in Maybe({SampleImages, SampleVideo} \cup RecordWithMedia(depth - 1))}

BskyEmbeds ==
    {None, Some(JNull), Some(Obj(Type("app.bsky.embed.external#view")))}
        \cup {Some(e) : e \in ImagesEmbeds \cup VideoEmbeds \cup QuoteEmbeds
                                  \cup RecordWithMedia(MaxEmbedDepth)}

InitRender ==
    /\ \/ /\ status \in {Some(st) : st \in RenderStatuses(MaxReblogDepth, MaxMedia)}
          /\ bsky = None
       \/ /\ status = None
          /\ bsky \in {Some([record |-> r, embed |-> e, reason |-> rs]) :
                          r \in BskyRecords, e \in BskyEmbeds, rs \in BskyReasons}
    /\ description = None
    /\ instance = <<>> /\ validated = Pending
    /\ HandlerIdle /\ AssembleIdle

RenderMastodon ==
    /\ IsSome(status)
    /\ description = None
    /\ description' = Some(content_for(Unwrap(status)))
    /\ UNCHANGED <<instance, validated, handlerVars, status, bsky, assembleVars>>

RenderBluesky ==
    /\ IsSome(bsky)
    /\ description = None
    /\ description' = Some(bluesky_content_from_record(
                               Unwrap(bsky).record, Unwrap(bsky).embed, Unwrap(bsky).reason))
    /\ UNCHANGED <<instance, validated, handlerVars, status, bsky, assembleVars>>

NextRender == RenderMastodon \/ RenderBluesky

SpecRender == InitRender /\ [][NextRender]_vars

-----------------------------------------------------------------------------
(* SpecAssemble: create_feed and create_bluesky_feed on bounded post lists  *)

AssembleStatuses ==
    {Status(id, PlainText("c"), Account(n), t, u, None, <<>>) :
        id \in {Lit("status-1"), Lit("status-2"), <<>>},
        n \in {<<>>, PlainText("n")},
        t \in {SampleTime, Lit("yesterday")},
        u \in {None, Some(SampleUrl)}}

AtUri2 ==
    Lit("at:") \o <<Run("/", 2)>> \o Lit("did:plc:456") \o <<Run("/", 1)>>
        \o Lit("app.bsky.feed.post") \o <<Run("/", 1)>> \o Lit("xyz")

BlueskyPost(id, name, created_at, enclosure, media_thumbnail) ==
    [id |-> id, author_handle |-> Handle, author_display_name |-> name,
     content |-> Markup("<p>") \o Text(PlainText("c")) \o Markup("</p>"),
     created_at |-> created_at, enclosure |-> enclosure,
     media_thumbnail |-> media_thumbnail]

AssembleBlueskyPosts ==
    {BlueskyPost(id, n, t, e, m) :
        id \in {AtUri, AtUri2},
        n \in {Handle, PlainText("n")},
        t \in {None, Some(DateTime(2023, 1, 1, 12, 34, 56, "+0000"))},
        e \in {None, Some(bluesky_image_enclosure(ThumbUrl))},
        m \in {None, Some(ThumbUrl)}}

InitAssemble ==
    /\ posts \in {Some([source |-> "mastodon", list |-> l]) :
                     l \in SeqsUpTo(AssembleStatuses, MaxPosts)}
              \cup {Some([source |-> "bluesky", list |-> l]) :
                       l \in SeqsUpTo(AssembleBlueskyPosts, MaxPosts)}
    /\ rss_lib \in LibOutcomes
    /\ feed_output = Pending
    /\ instance = <<>> /\ validated = Pending
    /\ access_token = <<>> /\ pc = "unused" /\ sent = <<>> /\ reply = NoReply
    /\ response = NoResponse /\ stderr = <<>>
    /\ RenderIdle

AssembleMastodon ==
    /\ IsSome(posts) /\ Unwrap(posts).source = "mastodon"
    /\ feed_output = Pending
    /\ feed_output' = create_feed(Unwrap(posts).list, Lit("https://mastodon.example/"), rss_lib)
    /\ UNCHANGED <<instance, validated, handlerVars, renderVars, posts>>

AssembleBluesky ==
    /\ IsSome(posts) /\ Unwrap(posts).source = "bluesky"
    /\ feed_output = Pending
    /\ feed_output' = create_bluesky_feed(Unwrap(posts).list, rss_lib)
    /\ UNCHANGED <<instance, validated, handlerVars, renderVars, posts>>

NextAssemble == AssembleMastodon \/ AssembleBluesky

SpecAssemble == InitAssemble /\ [][NextAssemble]_vars

-----------------------------------------------------------------------------
(* SpecNormalize: bluesky_post_from_feed on a bounded feed item, then       *)
(* create_bluesky_feed on the post it gives (bluesky_feed, after the        *)
(* timeline was fetched).                                                   *)

FeedRecords ==
    {Obj({<<"text", JStr(PlainText("c"))>>} \cup Opt("createdAt", c) \cup Opt("created_at", o)) :
        c \in Maybe({JStr(Lit("2024-02-29T23:59:59+02:00")), JStr(Lit("yesterday")), JNum}),
        o \in Maybe({JStr(Lit("2021-01-01T12:00:00+00:00"))})}

ThumbedImageViews ==
    {Obj(Opt("thumb", t) \cup Opt("fullsize", f)) :
        t \in Maybe({JStr(ThumbUrl), JNum}), f \in Maybe({JStr(FullsizeUrl)})}

ThumbedImagesEmbeds ==
    {Obj(Type("app.bsky.embed.images#view") \cup {<<"images", JArr(imgs)>>}) :
        imgs \in SeqsUpTo(ThumbedImageViews, MaxImages)}
        \cup {Obj(Type("app.bsky.embed.images#view")),
              Obj(Type("app.bsky.embed.images#view") \cup {<<"images", JNum>>})}

ThumbedVideoEmbeds ==
    {Obj(Type("app.bsky.embed.video#view") \cup {<<"playlist", JStr(PlaylistUrl)>>}
             \cup Opt("thumbnail", t)) :
        t \in Maybe({JStr(<<>>), JStr(ThumbUrl), JNum})}

RECURSIVE ThumbedRecordWithMedia(_)
ThumbedRecordWithMedia(depth) ==
    IF depth = 0 THEN {}
    ELSE {Obj(Type("app.bsky.embed.recordWithMedia#view")
                  \cup {<<"record", Obj({<<"record", SampleViewRecord>>})>>}
                  \cup Opt("media", m)) :
             m \in Maybe({SampleImages, SampleVideo, JNull}
                             \cup ThumbedRecordWithMedia(depth - 1))}

FeedEmbeds ==
    {None, Some(JNull), Some(Obj({})), Some(Obj(Type("app.bsky.embed.external#view"))),
     Some(Obj(Type("app.bsky.embed.record#view") \cup {<<"record", SampleViewRecord>>}))}
        \cup {Some(e) : e \in ThumbedImagesEmbeds \cup ThumbedVideoEmbeds
                                  \cup ThumbedRecordWithMedia(MaxEmbedDepth)}

FeedItems ==
    {[record |-> r, embed |-> e, reason |-> Some(JNull), indexed_at |-> ix,
      uri |-> AtUri, handle |-> Handle, display_name |-> n] :
        r \in Maybe(FeedRecords), e \in FeedEmbeds,
        ix \in {Lit("2023-01-01T12:34:56Z"), Lit("yesterday")},
        n \in Maybe({PlainText("n")})}

InitNormalize ==
    /\ bsky \in {Some(item) : item \in FeedItems}
    /\ status = None /\ description = None
    /\ posts = None /\ feed_output = Pending
    /\ instance = <<>> /\ validated = Pending
    /\ HandlerIdle

\* timeline.data.feed.into_iter().filter_map(bluesky_post_from_feed).collect()
NormalizeBluesky ==
    /\ IsSome(bsky)
    /\ posts = None
    /\ posts' = Some([source |-> "bluesky",
                      list |-> OptionToVec(bluesky_post_from_feed(Unwrap(bsky)))])
    /\ UNCHANGED <<instance, validated, handlerVars, renderVars, feed_output>>

NextNormalize == NormalizeBluesky \/ AssembleBluesky

SpecNormalize == InitNormalize /\ [][NextNormalize]_vars

-----------------------------------------------------------------------------
(* Claims on validate_mastodon_instance (SpecValidate) *)

\* The rules of the hostname, stated on the runs without splitting: no
\* forbidden character, no empty label (no leading, trailing or doubled dot),
\* no hyphen at a label's edge, and no dot-free stretch longer than 63.
RECURSIVE RunsLen(_, _, _)
RunsLen(s, i, j) == IF i > j THEN 0 ELSE ByteLen(s[i].c) * s[i].n + RunsLen(s, i + 1, j)

IsDot(s, i) == s[i].c = "."

WellFormedHostname(s) ==
    /\ Len(s) > 0
    /\ RunsLen(s, 1, Len(s)) <= 253
    /\ \A i \in 1..Len(s) : s[i].c \notin {"/", ":", "@"}
    /\ \A i \in 1..Len(s) : s[i].c \in {"a", "-", "."}
    /\ ~IsDot(s, 1) /\ ~IsDot(s, Len(s))
    /\ \A i \in 1..Len(s) : IsDot(s, i) => s[i].n = 1
    /\ \A i \in 1..(Len(s) - 1) : ~(IsDot(s, i) /\ IsDot(s, i + 1))
    /\ s[1].c # "-" /\ s[Len(s)].c # "-"
    /\ \A i \in 1..(Len(s) - 1) :
          /\ (IsDot(s, i) => s[i + 1].c # "-")
          /\ (IsDot(s, i + 1) => s[i].c # "-")
    /\ \A i \in 1..Len(s) : \A j \in i..Len(s) :
          (\A k \in i..j : ~IsDot(s, k)) => RunsLen(s, i, j) <= 63

\* C1: validate_mastodon_instance succeeds exactly on the well-formed
\* hostnames, with "https://" + hostname + "/", and otherwise fails with
\* InvalidInstance.
C1_ValidateIffWellFormed ==
    validated # Pending =>
        IF WellFormedHostname(instance)
        THEN validated = Ok(<<Run("https://", 1)>> \o instance \o <<Run("/", 1)>>)
        ELSE validated = Err(UserError("InvalidInstance"))

\* A name of 253 bytes in four labels was accepted.
C1_Witness_LongestName ==
    /\ validated.ok
    /\ Len(instance) = 7
    /\ RunsLen(instance, 1, 7) = 253

-----------------------------------------------------------------------------
(* Claims on the feed handler (SpecFeed) *)

BlankToken(token) == \A i \in 1..Len(token) : token[i].c \in {" ", "\n", "\t"}

ValidationMessages ==
    {Lit("Invalid Mastodon instance format."), Lit("Access token is required.")}

\* C2: a request with an invalid hostname or a blank token never has an
\* upstream request sent for it, and is answered with the validation error;
\* no response carrying a validation error follows an upstream request.
C2_ValidationBeforeNetwork ==
    /\ (~WellFormedHostname(instance) \/ BlankToken(access_token)) =>
          /\ sent = <<>>
          /\ pc # "awaiting"
          /\ pc = "done" =>
                /\ response.status = 400
                /\ response.body.text =
                      IF ~WellFormedHostname(instance)
                      THEN Lit("Invalid Mastodon instance format.")
                      ELSE Lit("Access token is required.")
    /\ (pc = "done" /\ response.body.text \in ValidationMessages) => sent = <<>>

\* A well-formed hostname with a whitespace-only token was answered.
C2_Witness_BlankToken ==
    /\ pc = "done"
    /\ WellFormedHostname(instance)
    /\ BlankToken(access_token)
    /\ response.body.text = Lit("Access token is required.")

\* The post-list schema, stated on the JSON value: an array of objects with
\* string id, uri and created_at, whose other known members, when present,
\* have the type of their field (null allowed where the field is optional).
Has(j, key) == key \in DOMAIN j.obj
StringOrNull(j) == IsStr(j) \/ IsNull(j)

IsAccountJson(j) ==
    /\ IsObj(j)
    /\ \A k \in {"display_name", "username"} : Has(j, k) => IsStr(j.obj[k])

IsAttachmentJson(j) ==
    /\ IsObj(j)
    /\ \A k \in {"description", "preview_url"} : Has(j, k) => StringOrNull(j.obj[k])

RECURSIVE IsStatusJson(_)
IsStatusJson(j) ==
    /\ IsObj(j)
    /\ \A k \in {"id", "uri", "created_at"} : Has(j, k) /\ IsStr(j.obj[k])
    /\ Has(j, "url") => StringOrNull(j.obj["url"])
    /\ Has(j, "account") => IsAccountJson(j.obj["account"])
    /\ Has(j, "content") => IsStr(j.obj["content"])
    /\ Has(j, "reblog") => (IsNull(j.obj["reblog"]) \/ IsStatusJson(j.obj["reblog"]))
    /\ Has(j, "media_attachments") =>
          /\ IsArr(j.obj["media_attachments"])
          /\ \A i \in 1..Len(j.obj["media_attachments"].arr) :
                IsAttachmentJson(j.obj["media_attachments"].arr[i])

IsPostList(body) ==
    IsArr(body) /\ \A i \in 1..Len(body.arr) : IsStatusJson(body.arr[i])

\* The upstream answered and the fetch failed: a non-success status, or a
\* success status whose body is not a post list.
UpstreamFailure ==
    /\ pc = "done"
    /\ reply.kind = "response"
    /\ ~(200 <= reply.status /\ reply.status <= 299) \/ ~IsPostList(reply.body)

InternalErrorText == Lit("An internal error occurred. Please try again later.")

\* The strings the upstream body holds under the three error keys.
UpstreamTexts ==
    IF IsObj(reply.body)
    THEN {reply.body.obj[k].str :
             k \in {x \in ErrorKeys \cap DOMAIN reply.body.obj : IsStr(reply.body.obj[x])}}
    ELSE {}

GenericMessages ==
    {Lit("HTTP ") \o Lit(c) \o Lit(" from Mastodon API.") : c \in {"200", "401", "503"}}
        \cup {Lit("Unexpected response from Mastodon API.")}

\* C4 as stated: an upstream failure is answered with the fixed internal-error
\* message in an internal-error response.
C4_Original_InternalErrorOnUpstreamFailure ==
    UpstreamFailure =>
        /\ response.status = 500
        /\ response.body.text = InternalErrorText

\* C4 amended: an upstream failure is answered 400 with "Mastodon API error: "
\* followed by the classified message (a string of the upstream body, or a
\* generic message); the fixed internal-error message is sent only when the
\* request or the reading of its body failed, or the feed could not be built.
C4_UpstreamFailureIsApiError ==
    /\ UpstreamFailure =>
          /\ response.status = 400
          /\ \E m \in UpstreamTexts \cup GenericMessages :
                response.body.text = Lit("Mastodon API error: ") \o m
    /\ (pc = "done" /\ response.body.text = InternalErrorText) =>
          /\ response.status = 500
          /\ reply.kind \in {"send_error", "read_error"} \/ rss_lib # "ok"

C4_Witness_UpstreamMessageShown ==
    /\ UpstreamFailure
    /\ reply.status = 401
    /\ response.body.text = Lit("Mastodon API error: ") \o Lit("invalid_token")

NonSuccessReply ==
    /\ pc = "done"
    /\ reply.kind = "response"
    /\ ~(200 <= reply.status /\ reply.status <= 299)

PresentKeys == IF IsObj(reply.body) THEN ErrorKeys \cap DOMAIN reply.body.obj ELSE {}
StringKeys == {k \in PresentKeys : IsStr(reply.body.obj[k])}

FirstOf(keys) ==
    IF "error" \in keys THEN "error"
    ELSE IF "error_description" \in keys THEN "error_description"
    ELSE "message"

HttpGeneric == Lit("HTTP ") \o Lit(CodeText(reply.status)) \o Lit(" from Mastodon API.")

\* C5 as stated: the message is the value of the first key present.
C5_Original_FirstPresentKey ==
    NonSuccessReply =>
        IF PresentKeys # {}
        THEN /\ IsStr(reply.body.obj[FirstOf(PresentKeys)])
             /\ response.body.text =
                    Lit("Mastodon API error: ") \o reply.body.obj[FirstOf(PresentKeys)].str
        ELSE response.body.text = Lit("Mastodon API error: ") \o HttpGeneric

\* C5 amended: the message is the value of the first key, in the order error,
\* error_description, message, whose value is a JSON string; when the body is
\* not JSON or holds a string under none of them, it is "HTTP <code> from
\* Mastodon API.".
C5_FirstStringKey ==
    NonSuccessReply =>
        IF StringKeys # {}
        THEN response.body.text =
                 Lit("Mastodon API error: ") \o reply.body.obj[FirstOf(StringKeys)].str
        ELSE response.body.text = Lit("Mastodon API error: ") \o HttpGeneric

\* The error key holds a number and the description was used instead.
C5_Witness_SkipsNonString ==
    /\ NonSuccessReply
    /\ PresentKeys = ErrorKeys
    /\ ~IsStr(reply.body.obj["error"])
    /\ IsStr(reply.body.obj["error_description"])
    /\ IsStr(reply.body.obj["message"])
    /\ reply.body.obj["message"] # reply.body.obj["error_description"]
    /\ response.body.text =
           Lit("Mastodon API error: ") \o reply.body.obj["error_description"].str

SuccessUnparsed ==
    /\ pc = "done"
    /\ reply.kind = "response"
    /\ 200 <= reply.status /\ reply.status <= 299
    /\ ~IsPostList(reply.body)

FeedProduced == pc = "done" /\ response.body.kind = "rss"

\* C6 as stated: a success status with a body that is no post list gives an
\* upstream error carrying a text extracted from the body whenever the body is
\* an object with one of the keys, the generic message otherwise; and a feed
\* only comes from a success status with a post list.
C6_Original_ExtractedWheneverKeyPresent ==
    /\ SuccessUnparsed =>
          /\ ~FeedProduced
          /\ response.status = 400
          /\ IF PresentKeys # {}
             THEN \E m \in UpstreamTexts :
                     response.body.text = Lit("Mastodon API error: ") \o m
             ELSE response.body.text =
                     Lit("Mastodon API error: ") \o Lit("Unexpected response from Mastodon API.")
    /\ FeedProduced =>
          /\ reply.kind = "response"
          /\ 200 <= reply.status /\ reply.status <= 299
          /\ IsPostList(reply.body)

\* C6 amended: the extracted text is carried when the body is an object
\* holding a string under one of the keys (the first such key in the order
\* error, error_description, message), the generic message otherwise.
C6_UnparsedSuccessIsUpstreamError ==
    /\ SuccessUnparsed =>
          /\ ~FeedProduced
          /\ response.status = 400
          /\ IF StringKeys # {}
             THEN response.body.text =
                     Lit("Mastodon API error: ") \o reply.body.obj[FirstOf(StringKeys)].str
             ELSE response.body.text =
                     Lit("Mastodon API error: ") \o Lit("Unexpected response from Mastodon API.")
    /\ FeedProduced =>
          /\ reply.kind = "response"
          /\ 200 <= reply.status /\ reply.status <= 299
          /\ IsPostList(reply.body)

\* A success status with a list holding an element without id was answered
\* with the generic message.
C6_Witness_BadListIsError ==
    /\ SuccessUnparsed
    /\ IsArr(reply.body)
    /\ Len(reply.body.arr) = 2
    /\ response.body.text =
           Lit("Mastodon API error: ") \o Lit("Unexpected response from Mastodon API.")

\* C9: every item of a produced feed has a non-empty GUID.
C9_GuidNeverEmpty ==
    FeedProduced =>
        \A i \in 1..Len(Unwrap(response.body.channel).items) :
            Unwrap(response.body.channel).items[i].guid.value # <<>>

\* C10: on an upstream failure the text sent to the client is no longer than
\* the fixed prefix plus a preview of PreviewLen characters, whatever the size
\* of the upstream body.
C10_ClientTextBounded ==
    UpstreamFailure =>
        RunsLen(response.body.text, 1, Len(response.body.text))
            <= RunsLen(Lit("Mastodon API error: "), 1, 1) + PreviewLen

-----------------------------------------------------------------------------
(* Claims on the renderers (SpecRender) *)

UnescapedText(segment) ==
    /\ segment.kind = "text"
    /\ \E i \in 1..Len(segment.s) : segment.s[i].c \in {"<", ">", "\""}

\* C3: no segment of a rendered description that was interpolated from a
\* text field holds an unescaped <, > or ", for either renderer.
C3_TextFieldsEscaped ==
    IsSome(description) =>
        \A i \in 1..Len(Unwrap(description)) : ~UnescapedText(Unwrap(description)[i])

\* The Bluesky half of C3 alone.
BlueskyTextFieldsEscaped ==
    (IsSome(description) /\ IsSome(bsky)) =>
        \A i \in 1..Len(Unwrap(description)) : ~UnescapedText(Unwrap(description)[i])

Opens(segment) ==
    segment.kind = "markup" /\ segment.s \in {Lit(":\n<blockquote>"), Lit("<blockquote>")}
Closes(segment) == segment.kind = "markup" /\ segment.s = Lit("</blockquote>")

\* The deepest nesting of block-quotes in the markup of a description.
RECURSIVE NestingFrom(_, _, _, _)
NestingFrom(html, i, open, deepest) ==
    IF i > Len(html) THEN deepest
    ELSE IF Opens(html[i])
    THEN NestingFrom(html, i + 1, open + 1, IF open + 1 > deepest THEN open + 1 ELSE deepest)
    ELSE IF Closes(html[i]) THEN NestingFrom(html, i + 1, open - 1, deepest)
    ELSE NestingFrom(html, i + 1, open, deepest)

BlockquoteDepth(html) == NestingFrom(html, 1, 0, 0)

\* C7: a rendered description unwraps at most one level of repost or quote,
\* however deep the payload nests.
C7_UnwrapDepthCapped ==
    IsSome(description) => BlockquoteDepth(Unwrap(description)) <= 1

-----------------------------------------------------------------------------
(* Claims on the feed assemblers (SpecAssemble) *)

\* C8: when the rss crate reports no error, the assembler returns a channel
\* with exactly one item per input post, the i-th item carrying the i-th
\* post's id as a non-permalink GUID; an empty list gives no items.  (When the
\* crate reports an error the assembler returns the error and no channel.)
C8_OneItemPerPostInOrder ==
    feed_output # Pending =>
        /\ feed_output.ok <=> (rss_lib = "ok" \/ (rss_lib = "item" /\ Unwrap(posts).list = <<>>))
        /\ feed_output.ok =>
              /\ Len(Val(feed_output).items) = Len(Unwrap(posts).list)
              /\ \A i \in 1..Len(Unwrap(posts).list) :
                    /\ Val(feed_output).items[i].guid.value = Unwrap(posts).list[i].id
                    /\ Val(feed_output).items[i].guid.permalink = FALSE

\* Two posts with different ids were assembled into a channel.
C8_Witness_TwoPosts ==
    /\ feed_output.ok
    /\ Len(Unwrap(posts).list) = 2
    /\ Unwrap(posts).list[1].id # Unwrap(posts).list[2].id
    /\ Len(Val(feed_output).items) = 2

\* The RFC 2822 dates of the well-formed timestamps, written out by hand:
\* 1 January 2021 was a Friday, 1 January 2023 a Sunday.
Rfc2822(weekday, day, month, year, time, zone) ==
    [weekday |-> weekday, day |-> day, month |-> month, year |-> year,
     time |-> time, zone |-> zone]

ExpectedPubDate(created_at) ==
    IF created_at = Lit("2021-01-01T12:00:00+00:00")
    THEN Some(Rfc2822("Fri", 1, "Jan", 2021, <<12, 0, 0>>, "+0000"))
    ELSE IF created_at = Some(DateTime(2023, 1, 1, 12, 34, 56, "+0000"))
    THEN Some(Rfc2822("Sun", 1, "Jan", 2023, <<12, 34, 56>>, "+0000"))
    ELSE None

\* C11: in every produced feed, the i-th item carries a publish date exactly
\* when the i-th post has a parsable (Mastodon: created_at string) or present
\* (Bluesky: created_at option) creation timestamp, and then it is that
\* timestamp in RFC 2822 form; otherwise the item has no publish date at all.
C11_PubDateIffParsable ==
    feed_output.ok =>
        /\ Len(Val(feed_output).items) = Len(Unwrap(posts).list)
        /\ \A i \in 1..Len(Unwrap(posts).list) :
              Val(feed_output).items[i].pub_date
                  = ExpectedPubDate(Unwrap(posts).list[i].created_at)

\* A Mastodon feed was produced from a post with a parsable timestamp followed
\* by one whose timestamp does not parse: the first item is dated, the second
\* is not.
C11_Witness_DatedAndUndated ==
    /\ feed_output.ok
    /\ Unwrap(posts).source = "mastodon"
    /\ Len(Unwrap(posts).list) = 2
    /\ Unwrap(posts).list[1].created_at = Lit("2021-01-01T12:00:00+00:00")
    /\ Unwrap(posts).list[2].created_at = Lit("yesterday")
    /\ IsSome(Val(feed_output).items[1].pub_date)
    /\ Val(feed_output).items[2].pub_date = None

-----------------------------------------------------------------------------
(* Claims on the order of the rendered fragments (SpecRender) *)

IsMarkup(segment, text) == segment = Markup(text)[1]

\* The description begins with the paragraph of the post's text.
BeginsWithTextParagraph(html) ==
    /\ Len(html) >= 3
    /\ IsMarkup(html[1], "<p>")
    /\ html[2].kind = "text"
    /\ IsMarkup(html[3], "</p>")

HasRenderedMedia(st) ==
    \E i \in 1..Len(st.media_attachments) : IsSome(st.media_attachments[i].preview_url)

\* C12: a rendered description begins with the base text paragraph; each
\* media block follows a newline separator; and a post with no repost and no
\* media renders as exactly one paragraph holding the text and nothing else.
C12_FragmentsInOrder ==
    IsSome(description) =>
        LET html == Unwrap(description)
        IN  /\ IsSome(status) =>
                  /\ BeginsWithTextParagraph(html)
                  /\ \A i \in 1..Len(html) :
                        IsMarkup(html[i], "<img src=\"")
                            => i > 1 /\ IsMarkup(html[i - 1], "\n")
                  /\ (~IsSome(Unwrap(status).reblog) /\ ~HasRenderedMedia(Unwrap(status)))
                        => html = Markup("<p>") \o Text(Unwrap(status).content)
                                      \o Markup("</p>")
            /\ (IsSome(bsky) /\ IsSome(AsStr(Get(Unwrap(bsky).record, "text"))))
                  => BeginsWithTextParagraph(html)

\* The part of C12 the code does satisfy: a Mastodon post with no repost and no
\* rendered media is exactly one paragraph holding its text.
PlainPostIsOneParagraph ==
    (IsSome(description) /\ IsSome(status)
        /\ ~IsSome(Unwrap(status).reblog) /\ ~HasRenderedMedia(Unwrap(status)))
        => Unwrap(description) = Markup("<p>") \o Text(Unwrap(status).content)
                                     \o Markup("</p>")

\* The name a repost block is to carry: the reposting (outer) account's
\* display name, or its username when the display name is empty.
ReposterName(st) ==
    IF Trim(st.account.display_name) = <<>> THEN st.account.username
    ELSE st.account.display_name

\* The position of the first block-quote opening of a description, 0 if none.
FirstBlockquote(html) ==
    IF \E i \in 1..Len(html) : IsMarkup(html[i], ":\n<blockquote>")
    THEN CHOOSE i \in 1..Len(html) :
             /\ IsMarkup(html[i], ":\n<blockquote>")
             /\ \A j \in 1..(i - 1) : ~IsMarkup(html[j], ":\n<blockquote>")
    ELSE 0

\* C13: when a Mastodon post wraps a reposted post, the rendered output has a
\* block-quote, and the name written immediately before it is the reposting
\* (outer) account's display name, or that account's username when the
\* display name is empty.
C13_RepostNamesReposter ==
    (IsSome(description) /\ IsSome(status) /\ IsSome(Unwrap(status).reblog)) =>
        LET html == Unwrap(description)
            at == FirstBlockquote(html)
        IN  /\ at > 1
            /\ html[at - 1].kind = "text"
            /\ html[at - 1].s = ReposterName(Unwrap(status))

\* The part of C13 the code does satisfy: the block-quote of a repost holds
\* the rendering of the reposted post.
BlockquoteHoldsRepostedPost ==
    (IsSome(description) /\ IsSome(status) /\ IsSome(Unwrap(status).reblog)) =>
        LET html == Unwrap(description)
            at == FirstBlockquote(html)
            inner == content_for(Unwrap(Unwrap(status).reblog))
        IN  /\ at > 0
            /\ Len(html) >= at + Len(inner) + 1
            /\ SubSeq(html, at + 1, at + Len(inner)) = inner
            /\ IsMarkup(html[at + Len(inner) + 1], "</blockquote>")

-----------------------------------------------------------------------------
(* Claims on the media fragments (SpecRender) *)

\* The URLs of the elements that `open` opens, in the order of the output.
RECURSIVE UrlsAfter(_, _, _)
UrlsAfter(html, open, i) ==
    IF i >= Len(html) THEN <<>>
    ELSE (IF IsMarkup(html[i], open) THEN <<html[i + 1].s>> ELSE <<>>)
             \o UrlsAfter(html, open, i + 1)

\* Of a list of optional URLs, those that are there, in order.
RECURSIVE PresentUrls(_)
PresentUrls(urls) ==
    IF urls = <<>> THEN <<>>
    ELSE OptionToVec(Head(urls)) \o PresentUrls(Tail(urls))

\* Of a list of optional URLs, those that can be resolved (there and not
\* empty), in order.
RECURSIVE ResolvableUrls(_)
ResolvableUrls(urls) ==
    IF urls = <<>> THEN <<>>
    ELSE (IF IsSome(Head(urls)) /\ Unwrap(Head(urls)) # <<>> THEN Head(urls) ELSE <<>>)
             \o ResolvableUrls(Tail(urls))

PreviewUrls(st) ==
    [i \in 1..Len(st.media_attachments) |-> st.media_attachments[i].preview_url]

IsEmbed(post, type) ==
    /\ IsSome(post.embed)
    /\ AsStr(Get(Unwrap(post.embed), "$type")) = Some(Lit(type))

FullsizeUrls(embed) ==
    IF IsSome(AsArray(Get(embed, "images")))
    THEN [i \in 1..Len(Unwrap(AsArray(Get(embed, "images")))) |->
             AsStr(Get(Unwrap(AsArray(Get(embed, "images")))[i], "fullsize"))]
    ELSE <<>>

PlaylistUrls(embed) == <<AsStr(Get(embed, "playlist"))>>

\* C14: the media fragments of a rendered description are, in input order,
\* those of the media items that have a resolvable URL (a Mastodon attachment's
\* preview_url, a Bluesky image's fullsize URL, a Bluesky video's playlist
\* URL); an item without one contributes no fragment, and no element has an
\* empty src or href.
C14_MediaFragmentsMatchUrls ==
    IsSome(description) =>
        LET html == Unwrap(description)
        IN  /\ \A i \in 1..Len(html) : html[i].kind = "url" => html[i].s # <<>>
            /\ IsSome(status) =>
                  UrlsAfter(html, "<img src=\"", 1)
                      = ResolvableUrls(PreviewUrls(Unwrap(status)))
            /\ (IsSome(bsky) /\ IsEmbed(Unwrap(bsky), "app.bsky.embed.images#view")) =>
                  UrlsAfter(html, "<p><img src=\"", 1)
                      = ResolvableUrls(FullsizeUrls(Unwrap(Unwrap(bsky).embed)))
            /\ (IsSome(bsky) /\ IsEmbed(Unwrap(bsky), "app.bsky.embed.video#view")) =>
                  LET playable == ResolvableUrls(PlaylistUrls(Unwrap(Unwrap(bsky).embed)))
                  IN  /\ playable = <<>> =>
                            \A i \in 1..Len(html) : html[i].kind # "url"
                      /\ playable # <<>> =>
                            /\ \E i \in 1..Len(html) :
                                  IsMarkup(html[i], "\">Video</a></p>")
                            /\ \A u \in {UrlsAfter(html, "<p><a href=\"", 1)[k] :
                                              k \in 1..Len(UrlsAfter(html, "<p><a href=\"", 1))} :
                                  u = playable[1]

\* The part of C14 the code does satisfy: one fragment, in input order, for
\* every Mastodon attachment whose preview_url is there and every Bluesky
\* image whose fullsize URL is a string, and none for the others; a video
\* renders only with a non-empty playlist URL.
MediaFragmentsMatchPresentUrls ==
    IsSome(description) =>
        LET html == Unwrap(description)
        IN  /\ IsSome(status) =>
                  UrlsAfter(html, "<img src=\"", 1)
                      = PresentUrls(PreviewUrls(Unwrap(status)))
            /\ (IsSome(bsky) /\ IsEmbed(Unwrap(bsky), "app.bsky.embed.images#view")) =>
                  UrlsAfter(html, "<p><img src=\"", 1)
                      = PresentUrls(FullsizeUrls(Unwrap(Unwrap(bsky).embed)))
            /\ (IsSome(bsky) /\ IsEmbed(Unwrap(bsky), "app.bsky.embed.video#view")
                    /\ ResolvableUrls(PlaylistUrls(Unwrap(Unwrap(bsky).embed))) = <<>>) =>
                  \A i \in 1..Len(html) : html[i].kind # "url"

-----------------------------------------------------------------------------
(* Claims on Bluesky enclosures (SpecNormalize) *)

\* C15: for every embed, bluesky_enclosure_from_embed gives an enclosure
\* exactly when bluesky_media_thumbnail_from_embed gives a thumbnail, and both
\* carry the same URL; so every Bluesky feed item has an enclosure if and only
\* if it has a media:content extension, and both point at the same URL.
C15_EnclosureIffThumbnail ==
    /\ IsSome(bsky) =>
          LET enclosure == bluesky_enclosure_from_embed(Unwrap(bsky).embed)
              thumbnail == bluesky_media_thumbnail_from_embed(Unwrap(bsky).embed)
          IN  /\ IsSome(enclosure) <=> IsSome(thumbnail)
              /\ IsSome(enclosure) => Unwrap(enclosure).url = Unwrap(thumbnail)
    /\ IsSome(posts) =>
          \A i \in 1..Len(Unwrap(posts).list) :
              LET post == Unwrap(posts).list[i]
              IN  /\ IsSome(post.enclosure) <=> IsSome(post.media_thumbnail)
                  /\ IsSome(post.enclosure)
                        => Unwrap(post.enclosure).url = Unwrap(post.media_thumbnail)
    /\ feed_output.ok =>
          \A i \in 1..Len(Val(feed_output).items) :
              LET item == Val(feed_output).items[i]
              IN  /\ IsSome(item.enclosure) <=> IsSome(item.extensions)
                  /\ IsSome(item.extensions)
                        => /\ Unwrap(item.extensions).name = "media:content"
                           /\ Unwrap(item.extensions).attrs.url = Unwrap(item.enclosure).url

\* A feed item was built from an images embed whose first image has both a
\* thumb and a fullsize URL: it has an enclosure and a media:content
\* extension, both with the thumb URL.
C15_Witness_ThumbPreferred ==
    /\ feed_output.ok
    /\ Len(Val(feed_output).items) = 1
    /\ IsSome(Unwrap(bsky).embed)
    /\ AsStr(Get(Unwrap(Unwrap(bsky).embed), "$type")) = Some(Lit("app.bsky.embed.images#view"))
    /\ IsSome(AsArray(Get(Unwrap(Unwrap(bsky).embed), "images")))
    /\ Unwrap(AsArray(Get(Unwrap(Unwrap(bsky).embed), "images"))) # <<>>
    /\ Get(Unwrap(AsArray(Get(Unwrap(Unwrap(bsky).embed), "images")))[1], "fullsize")
          = Some(JStr(FullsizeUrl))
    /\ Val(feed_output).items[1].enclosure = Some(bluesky_image_enclosure(ThumbUrl))
    /\ IsSome(Val(feed_output).items[1].extensions)
    /\ Unwrap(Val(feed_output).items[1].extensions).attrs.url = ThumbUrl

====
